---------------------------- MODULE Spec2Model ----------------------------
(***************************************************************************)
(* Model of src/common/helper/env.helper.ts: getEnvPath, which builds the  *)
(* path of the .env file of the current NODE_ENV, and processEnvVars,      *)
(* which converts the escaped newlines of the JWT keys of a configuration  *)
(* mapping and moves the lowercase JWT keys to their canonical names.      *)
(*                                                                         *)
(* A JavaScript string is a sequence of tokens; a token is one character   *)
(* ("/", ".", "\\", "n", "\n", "a", ...) or a word that holds none of the  *)
(* characters the code looks at ("app", "production", "env", ...).  A      *)
(* JavaScript value is a record [type, val] with val a sequence, so that   *)
(* values of different types compare.                                      *)
(***************************************************************************)
EXTENDS Integers, Sequences, FiniteSets

VARIABLES
    pc,         \* position of the run
    cwd,        \* process.cwd(), read by path.resolve
    dest,       \* getEnvPath's argument
    NODE_ENV,   \* process.env.NODE_ENV
    path,       \* getEnvPath's return value
    input,      \* the mapping the caller built, as it was before the call
    objs,       \* the heap: objs[r] is the mapping of the object r
    config,     \* processEnvVars's argument (an object reference)
    processed,  \* processEnvVars's local (an object reference, 0 before line 16)
    i,          \* index of the forEach of line 28
    ret,        \* processEnvVars's return value (an object reference, 0 before)
    again,      \* processEnvVars of the mapping it returned
    files,      \* the host of the deployment script: the files it tests and reads
    IMAGE_DETAIL_FILE,  \* the script's variable
    IMAGE_URI,  \* the script's variable
    log,        \* the aws/docker commands the script has run, with their outcome
    status      \* the script's exit status, -1 while it runs

vars == <<pc, cwd, dest, NODE_ENV, path, input, objs, config, processed, i, ret, again,
          files, IMAGE_DETAIL_FILE, IMAGE_URI, log, status>>

---------------------------------------------------------------------------
(* Bounds *)

\* largest number of entries of an input mapping
MaxKeys == 3

\* largest number of tokens of a base directory
MaxDestLen == 3

---------------------------------------------------------------------------
(* JavaScript values *)

BSL == "\\"
NL == "\n"

Str(s) == [type |-> "string", val |-> s]
Undefined == [type |-> "undefined", val |-> <<>>]
Null == [type |-> "null", val |-> <<>>]
Num(n) == [type |-> "number", val |-> <<n>>]
Bool(b) == [type |-> "boolean", val |-> <<b>>]
Obj == [type |-> "object", val |-> <<"{}">>]

\* ToBoolean, as the conditions of lines 5, 29, 35, 39 and 43 apply it
Truthy(v) ==
    CASE v.type = "string" -> v.val # <<>>
      [] v.type = "number" -> v.val # <<"0">>
      [] v.type = "boolean" -> v.val = <<"true">>
      [] v.type = "null" -> FALSE
      [] v.type = "undefined" -> FALSE
      [] OTHER -> TRUE

\* the values an entry of the input mapping may hold
StringVals ==
    { Str(<<>>),
      Str(<<"a", BSL, "n", "b">>),
      Str(<<BSL, "n", BSL, BSL, "n">>),
      Str(<<"n", BSL, NL>>) }

NonStringVals == { Num("0"), Num("1"), Bool("false"), Bool("true"), Null, Undefined, Obj }

Vals == StringVals \cup NonStringVals

---------------------------------------------------------------------------
(* getEnvPath *)

IsAbsolute(p) == Len(p) > 0 /\ p[1] = "/"

\* the segments of p between its "/" tokens, the last one being cur
RECURSIVE Segments(_, _)
Segments(p, cur) ==
    IF p = <<>> THEN <<cur>>
    ELSE IF Head(p) = "/" THEN <<cur>> \o Segments(Tail(p), <<>>)
    ELSE Segments(Tail(p), Append(cur, Head(p)))

\* path.posix normalizeString with allowAboveRoot false: "" and "." are
\* skipped, ".." drops the last segment kept, if any
RECURSIVE NormalizeSegs(_, _)
NormalizeSegs(segs, kept) ==
    IF segs = <<>> THEN kept
    ELSE IF Head(segs) = <<>> \/ Head(segs) = <<".">> THEN NormalizeSegs(Tail(segs), kept)
    ELSE IF Head(segs) = <<".", ".">>
        THEN NormalizeSegs(Tail(segs),
                           IF kept = <<>> THEN kept ELSE SubSeq(kept, 1, Len(kept) - 1))
    ELSE NormalizeSegs(Tail(segs), Append(kept, Head(segs)))

RECURSIVE Join(_)
Join(segs) ==
    IF segs = <<>> THEN <<>>
    ELSE IF Len(segs) = 1 THEN Head(segs)
    ELSE Head(segs) \o <<"/">> \o Join(Tail(segs))

\* path.resolve(p) in a process whose working directory is c
resolve(c, p) ==
    LET full == IF IsAbsolute(p) THEN p ELSE c \o <<"/">> \o p
    IN  <<"/">> \o Join(NormalizeSegs(Segments(full, <<>>), <<>>))

\* faulty variant of getEnvPath: the template of line 5 without its default
getEnvPathNoDefault(c, d, env) ==
    resolve(c, d \o <<"/">> \o (<<".">> \o env.val \o <<".", "env">>))

\* faulty variant of getEnvPath: line 5 testing env !== undefined
getEnvPathIfDefined(c, d, env) ==
    LET filename == IF env.type # "undefined" THEN <<".">> \o env.val \o <<".", "env">>
                    ELSE <<".", "development", ".", "env">>
    IN  resolve(c, d \o <<"/">> \o filename)

\* lines 3-7
getEnvPath(c, d, env) ==
    LET filename == IF Truthy(env) THEN <<".">> \o env.val \o <<".", "env">>
                    ELSE <<".", "development", ".", "env">>
    IN  resolve(c, d \o <<"/">> \o filename)

---------------------------------------------------------------------------
(* processEnvVars *)

multilineVars ==
    << "JWT_PRIVATE_KEY", "JWT_PUBLIC_KEY", "JWT_REFRESH_TOKEN_PRIVATE_KEY",
       "jwt_private_key", "jwt_public_key", "jwt_refresh_token_private_key" >>

Has(o, k) == k \in DOMAIN o
\* o[k] in JavaScript: undefined when o has no property k
Get(o, k) == IF Has(o, k) THEN o[k] ELSE Undefined
\* o[k] = v
Set(o, k, v) == [x \in (DOMAIN o) \cup {k} |-> IF x = k THEN v ELSE o[x]]
\* delete o[k]
Delete(o, k) == [x \in (DOMAIN o) \ {k} |-> o[x]]

\* faulty variant of SpreadRef: processed = config, no new object
SpreadAlias(h, r) == r

\* line 16, { ...config }: the reference of the new object
SpreadRef(h, r) == Len(h) + 1

\* faulty variant of SpreadHeap: only the entries of multilineVars are copied
SpreadOnlyJwt(h, r) ==
    Append(h, [k \in (DOMAIN h[r]) \cap {multilineVars[n] : n \in 1..Len(multilineVars)} |-> h[r][k]])

\* line 16, { ...config }: the heap with the new object, which holds the
\* entries of the object r
SpreadHeap(h, r) == Append(h, h[r])

\* faulty variant of ReplaceNewlines: the regular expression without its g flag
RECURSIVE ReplaceFirst(_)
ReplaceFirst(s) ==
    IF s = <<>> THEN <<>>
    ELSE IF Len(s) >= 2 /\ s[1] = BSL /\ s[2] = "n" THEN <<NL>> \o SubSeq(s, 3, Len(s))
    ELSE <<s[1]>> \o ReplaceFirst(Tail(s))

\* faulty variant of ReplaceNewlines: the regular expression /\\/g
RECURSIVE ReplaceBackslash(_)
ReplaceBackslash(s) ==
    IF s = <<>> THEN <<>>
    ELSE <<IF s[1] = BSL THEN NL ELSE s[1]>> \o ReplaceBackslash(Tail(s))

\* line 30, replace(/\\n/g, '\n'): every backslash followed by n, from left to
\* right, becomes one newline
RECURSIVE ReplaceNewlines(_)
ReplaceNewlines(s) ==
    IF s = <<>> THEN <<>>
    ELSE IF Len(s) >= 2 /\ s[1] = BSL /\ s[2] = "n"
        THEN <<NL>> \o ReplaceNewlines(SubSeq(s, 3, Len(s)))
    ELSE <<s[1]>> \o ReplaceNewlines(Tail(s))

\* faulty variant of CallsReplace: the condition of line 29 without its typeof
CallsReplaceNoTypeof(p, varName) == Truthy(Get(p, varName))

\* line 29: the condition under which line 30 calls replace on processed[varName]
CallsReplace(p, varName) == Truthy(Get(p, varName)) /\ Get(p, varName).type = "string"

\* line 30: v.replace(...) is a TypeError when v is no string (a number, a
\* boolean and a plain object have no replace method)
ReplaceThrows(v) == v.type # "string"

\* faulty variant of ConvertVar: without the typeof test of line 29
ConvertNoTypeCheck(p, varName) ==
    IF Truthy(Get(p, varName))
    THEN Set(p, varName, Str(ReplaceNewlines(Get(p, varName).val)))
    ELSE p

\* lines 29-31, the body of the forEach for one varName
ConvertVar(p, varName) ==
    IF CallsReplace(p, varName)
    THEN Set(p, varName, Str(ReplaceNewlines(Get(p, varName).val)))
    ELSE p

\* faulty variant of NormalizeCase: without the delete
NormalizeKeepLower(p, lower, canon) ==
    IF Truthy(Get(p, lower)) THEN Set(p, canon, Get(p, lower)) ELSE p

\* faulty variant of NormalizeCase: a canonical value already there is kept
NormalizeCanonWins(p, lower, canon) ==
    IF Truthy(Get(p, lower))
    THEN Delete(IF Has(p, canon) THEN p ELSE Set(p, canon, Get(p, lower)), lower)
    ELSE p

\* faulty variant of NormalizeCase: without the if
NormalizeAlways(p, lower, canon) == Delete(Set(p, canon, Get(p, lower)), lower)

\* faulty variant of NormalizeCase: the if testing the presence of the key
NormalizeIfPresent(p, lower, canon) ==
    IF Has(p, lower) THEN Delete(Set(p, canon, Get(p, lower)), lower) ELSE p

\* lines 35-38, 39-42, 43-47: one if of the case normalization
NormalizeCase(p, lower, canon) ==
    IF Truthy(Get(p, lower)) THEN Delete(Set(p, canon, Get(p, lower)), lower) ELSE p

\* the forEach of lines 28-32 from its n-th element on
RECURSIVE ForEachFrom(_, _)
ForEachFrom(p, n) ==
    IF n > Len(multilineVars) THEN p
    ELSE ForEachFrom(ConvertVar(p, multilineVars[n]), n + 1)

\* the mapping processEnvVars returns for the mapping c
processEnvVars(c) ==
    LET h == SpreadHeap(<<c>>, 1)
        p0 == h[Len(h)]
        p1 == ForEachFrom(p0, 1)
        p2 == NormalizeCase(p1, "jwt_private_key", "JWT_PRIVATE_KEY")
        p3 == NormalizeCase(p2, "jwt_public_key", "JWT_PUBLIC_KEY")
    IN  NormalizeCase(p3, "jwt_refresh_token_private_key", "JWT_REFRESH_TOKEN_PRIVATE_KEY")

---------------------------------------------------------------------------
(* Inputs *)

OtherKeys == { "PORT" }
Targeted == { multilineVars[n] : n \in 1..Len(multilineVars) }
Lowercase == { "jwt_private_key", "jwt_public_key", "jwt_refresh_token_private_key" }
Canonical == Targeted \ Lowercase
Keys == Targeted \cup OtherKeys

Canon(k) ==
    CASE k = "jwt_private_key" -> "JWT_PRIVATE_KEY"
      [] k = "jwt_public_key" -> "JWT_PUBLIC_KEY"
      [] k = "jwt_refresh_token_private_key" -> "JWT_REFRESH_TOKEN_PRIVATE_KEY"
      [] OTHER -> k

Lower(k) ==
    CASE k = "JWT_PRIVATE_KEY" -> "jwt_private_key"
      [] k = "JWT_PUBLIC_KEY" -> "jwt_public_key"
      [] k = "JWT_REFRESH_TOKEN_PRIVATE_KEY" -> "jwt_refresh_token_private_key"
      [] OTHER -> k

Configs ==
    UNION { [D -> Vals] : D \in { S \in SUBSET Keys : Cardinality(S) <= MaxKeys } }

RECURSIVE SeqsUpTo(_, _)
SeqsUpTo(S, n) ==
    IF n = 0 THEN { <<>> }
    ELSE LET shorter == SeqsUpTo(S, n - 1)
         IN  shorter \cup { Append(s, x) : s \in shorter, x \in S }

Dests == SeqsUpTo({ "/", ".", "app" }, MaxDestLen)
Cwds == { <<"/">>, <<"/", "srv">>, <<"/", "home", "/", "node">> }
Envs == { Undefined, Str(<<>>), Str(<<"production">>), Str(<<"test">>), Str(<<"staging">>) }

---------------------------------------------------------------------------
(* The deployment script of readme-add-table.md, run under set -e *)

\* a path the script tests: no regular file, a file cat cannot read, a file
\* without an "ImageURI":"..." field, or a file with one (uri may be empty)
NoFile == [kind |-> "none", uri |-> <<>>]
Unreadable == [kind |-> "unreadable", uri |-> <<>>]
NoField == [kind |-> "nofield", uri |-> <<>>]
Json(u) == [kind |-> "json", uri |-> u]

FileStates == { NoFile, Unreadable, NoField, Json(<<>>), Json(<<"image-a">>), Json(<<"image-b">>) }

\* the host of a run that is not a run of the script
NoHost == [here |-> NoFile, opt |-> NoFile, envFile |-> FALSE]

Hosts == [here : FileStates, opt : FileStates, envFile : BOOLEAN]

\* the exit statuses of a failing aws or docker command
FailCodes == { 1, 125 }

\* [ -f path ]
IsFile(f) == f.kind # "none"

\* faulty variant of LocateFile: /opt/app tested first
LocateFileOptFirst(h) ==
    IF IsFile(h.opt) THEN "/opt/app/imageDetail.json"
    ELSE IF IsFile(h.here) THEN "./imageDetail.json"
    ELSE ""

\* lines 1025-1031: IMAGE_DETAIL_FILE, "" when neither file is there
LocateFile(h) ==
    IF IsFile(h.here) THEN "./imageDetail.json"
    ELSE IF IsFile(h.opt) THEN "/opt/app/imageDetail.json"
    ELSE ""

\* the file IMAGE_DETAIL_FILE names
FileAt(h, name) == IF name = "./imageDetail.json" THEN h.here ELSE h.opt

\* line 1044: grep -o ... | sed ...: the text between the quotes of the
\* ImageURI field, nothing when grep finds no such field; the status of the
\* pipeline is sed's, so the assignment never aborts the script
ExtractURI(f) == IF f.kind = "json" THEN f.uri ELSE <<>>

Ran(cmd, arg, ok) == [cmd |-> cmd, arg |-> arg, ok |-> ok]

\* lines 1066-1070, in the order of the script
StopCommands ==
    << "stop graphql-backend", "rm graphql-backend", "stop demo-backend", "rm demo-backend" >>

\* the step after a stop or rm
AfterStop(c) ==
    CASE c = "stop graphql-backend" -> "rm graphql-backend"
      [] c = "rm graphql-backend" -> "stop demo-backend"
      [] c = "stop demo-backend" -> "rm demo-backend"
      [] OTHER -> "pull"

\* lines 1080-1083
EnvArgs(h) == IF h.envFile THEN <<"--env-file", "/opt/app/.env">> ELSE <<>>

---------------------------------------------------------------------------
(* The runs *)

InitPath ==
    /\ pc = "getEnvPath"
    /\ cwd \in Cwds
    /\ dest \in Dests
    /\ NODE_ENV \in Envs
    /\ path = <<>>
    /\ input = <<>>
    /\ objs = <<>>
    /\ config = 0
    /\ processed = 0
    /\ i = 0
    /\ ret = 0
    /\ again = <<>>
    /\ files = NoHost
    /\ IMAGE_DETAIL_FILE = ""
    /\ IMAGE_URI = <<>>
    /\ log = <<>>
    /\ status = -1

InitVars ==
    /\ pc = "processEnvVars"
    /\ cwd = <<>>
    /\ dest = <<>>
    /\ NODE_ENV = Undefined
    /\ path = <<>>
    /\ input \in Configs
    /\ objs = <<input>>
    /\ config = 1
    /\ processed = 0
    /\ i = 0
    /\ ret = 0
    /\ again = <<>>
    /\ files = NoHost
    /\ IMAGE_DETAIL_FILE = ""
    /\ IMAGE_URI = <<>>
    /\ log = <<>>
    /\ status = -1

InitDeploy ==
    /\ pc = "locate"
    /\ cwd = <<>>
    /\ dest = <<>>
    /\ NODE_ENV = Undefined
    /\ path = <<>>
    /\ input = <<>>
    /\ objs = <<>>
    /\ config = 0
    /\ processed = 0
    /\ i = 0
    /\ ret = 0
    /\ again = <<>>
    /\ files \in Hosts
    /\ IMAGE_DETAIL_FILE = ""
    /\ IMAGE_URI = <<>>
    /\ log = <<>>
    /\ status = -1

Init == InitPath \/ InitVars \/ InitDeploy

\* lines 3-7
GetEnvPath ==
    /\ pc = "getEnvPath"
    /\ path' = getEnvPath(cwd, dest, NODE_ENV)
    /\ pc' = "returned"
    /\ UNCHANGED <<cwd, dest, NODE_ENV, input, objs, config, processed, i, ret, again,
                 files, IMAGE_DETAIL_FILE, IMAGE_URI, log, status>>

\* line 16
Spread ==
    /\ pc = "processEnvVars"
    /\ objs' = SpreadHeap(objs, config)
    /\ processed' = SpreadRef(objs, config)
    /\ i' = 1
    /\ pc' = "forEach"
    /\ UNCHANGED <<cwd, dest, NODE_ENV, path, input, config, ret, again,
                 files, IMAGE_DETAIL_FILE, IMAGE_URI, log, status>>

\* lines 28-32, one element of multilineVars
ForEach ==
    /\ pc = "forEach"
    /\ i <= Len(multilineVars)
    /\ IF /\ CallsReplace(objs[processed], multilineVars[i])
          /\ ReplaceThrows(Get(objs[processed], multilineVars[i]))
       THEN \* the TypeError leaves the forEach and processEnvVars
            /\ pc' = "threw"
            /\ UNCHANGED <<objs, i>>
       ELSE /\ objs' = [objs EXCEPT ![processed] = ConvertVar(@, multilineVars[i])]
            /\ i' = i + 1
            /\ pc' = IF i = Len(multilineVars) THEN "line35" ELSE "forEach"
    /\ UNCHANGED <<cwd, dest, NODE_ENV, path, input, config, processed, ret, again,
                 files, IMAGE_DETAIL_FILE, IMAGE_URI, log, status>>

\* lines 35-38
NormalizePrivate ==
    /\ pc = "line35"
    /\ objs' = [objs EXCEPT ![processed] = NormalizeCase(@, "jwt_private_key", "JWT_PRIVATE_KEY")]
    /\ pc' = "line39"
    /\ UNCHANGED <<cwd, dest, NODE_ENV, path, input, config, processed, i, ret, again,
                 files, IMAGE_DETAIL_FILE, IMAGE_URI, log, status>>

\* lines 39-42
NormalizePublic ==
    /\ pc = "line39"
    /\ objs' = [objs EXCEPT ![processed] = NormalizeCase(@, "jwt_public_key", "JWT_PUBLIC_KEY")]
    /\ pc' = "line43"
    /\ UNCHANGED <<cwd, dest, NODE_ENV, path, input, config, processed, i, ret, again,
                 files, IMAGE_DETAIL_FILE, IMAGE_URI, log, status>>

\* lines 43-47
NormalizeRefresh ==
    /\ pc = "line43"
    /\ objs' = [objs EXCEPT ![processed] =
                   NormalizeCase(@, "jwt_refresh_token_private_key", "JWT_REFRESH_TOKEN_PRIVATE_KEY")]
    /\ pc' = "line49"
    /\ UNCHANGED <<cwd, dest, NODE_ENV, path, input, config, processed, i, ret, again,
                 files, IMAGE_DETAIL_FILE, IMAGE_URI, log, status>>

\* line 49
Return ==
    /\ pc = "line49"
    /\ ret' = processed
    /\ pc' = "done"
    /\ UNCHANGED <<cwd, dest, NODE_ENV, path, input, objs, config, processed, i, again,
                 files, IMAGE_DETAIL_FILE, IMAGE_URI, log, status>>

\* the caller hands the mapping it got back to processEnvVars once more
Reapply ==
    /\ pc = "done"
    /\ again' = processEnvVars(objs[ret])
    /\ pc' = "reapplied"
    /\ UNCHANGED <<cwd, dest, NODE_ENV, path, input, objs, config, processed, i, ret,
                 files, IMAGE_DETAIL_FILE, IMAGE_URI, log, status>>

jsVars == <<cwd, dest, NODE_ENV, path, input, objs, config, processed, i, ret, again>>

\* exit n, or set -e ending the script with the status n of a failed command
Exit(n) == pc' = "exited" /\ status' = n

\* lines 1025-1037
Locate ==
    /\ pc = "locate"
    /\ IMAGE_DETAIL_FILE' = LocateFile(files)
    /\ IF LocateFile(files) = ""
       THEN Exit(1)
       ELSE pc' = "cat" /\ status' = status
    /\ UNCHANGED <<jsVars, files, IMAGE_URI, log>>

\* line 1041: cat of a file that cannot be read fails, and set -e ends the script
Cat ==
    /\ pc = "cat"
    /\ IF FileAt(files, IMAGE_DETAIL_FILE).kind = "unreadable"
       THEN Exit(1)
       ELSE pc' = "extract" /\ status' = status
    /\ UNCHANGED <<jsVars, files, IMAGE_DETAIL_FILE, IMAGE_URI, log>>

\* lines 1044-1049
Extract ==
    /\ pc = "extract"
    /\ IMAGE_URI' = ExtractURI(FileAt(files, IMAGE_DETAIL_FILE))
    /\ IF ExtractURI(FileAt(files, IMAGE_DETAIL_FILE)) = <<>>
       THEN Exit(1)
       ELSE pc' = "login" /\ status' = status
    /\ UNCHANGED <<jsVars, files, IMAGE_DETAIL_FILE, log>>

\* line 1062: aws ecr get-login-password | docker login
Login ==
    /\ pc = "login"
    /\ \/ /\ log' = Append(log, Ran("login", <<>>, TRUE))
          /\ pc' = "stop graphql-backend"
          /\ status' = status
       \/ \E n \in FailCodes :
              /\ log' = Append(log, Ran("login", <<>>, FALSE))
              /\ Exit(n)
    /\ UNCHANGED <<jsVars, files, IMAGE_DETAIL_FILE, IMAGE_URI>>

\* lines 1066, 1067, 1069, 1070: docker stop or rm ... || true
StopOrRemove ==
    /\ pc \in { StopCommands[n] : n \in 1..Len(StopCommands) }
    /\ \E ok \in BOOLEAN : log' = Append(log, Ran(pc, <<>>, ok))
    /\ pc' = AfterStop(pc)
    /\ UNCHANGED <<jsVars, files, IMAGE_DETAIL_FILE, IMAGE_URI, status>>

\* line 1074
Pull ==
    /\ pc = "pull"
    /\ \/ /\ log' = Append(log, Ran("pull", IMAGE_URI, TRUE))
          /\ pc' = "run"
          /\ status' = status
       \/ \E n \in FailCodes :
              /\ log' = Append(log, Ran("pull", IMAGE_URI, FALSE))
              /\ Exit(n)
    /\ UNCHANGED <<jsVars, files, IMAGE_DETAIL_FILE, IMAGE_URI>>

\* lines 1079-1095: docker run -d --name graphql-backend ... $ENV_ARGS $IMAGE_URI
Run ==
    /\ pc = "run"
    /\ \/ /\ log' = Append(log, Ran("run graphql-backend", EnvArgs(files) \o IMAGE_URI, TRUE))
          /\ pc' = "verify"
          /\ status' = status
       \/ \E n \in FailCodes :
              /\ log' = Append(log, Ran("run graphql-backend", EnvArgs(files) \o IMAGE_URI, FALSE))
              /\ Exit(n)
    /\ UNCHANGED <<jsVars, files, IMAGE_DETAIL_FILE, IMAGE_URI>>

\* lines 1100-1101 and 1105-1108: docker ps | grep -q graphql-backend
Verify ==
    /\ pc = "verify"
    /\ \/ /\ log' = Append(log, Ran("ps", <<>>, TRUE))
          /\ pc' = "show"
          /\ status' = status
       \/ /\ log' = Append(Append(log, Ran("ps", <<>>, FALSE)), Ran("ps -a", <<>>, TRUE))
          /\ Exit(1)
       \/ /\ log' = Append(Append(log, Ran("ps", <<>>, FALSE)), Ran("ps -a", <<>>, FALSE))
          /\ Exit(1)
    /\ UNCHANGED <<jsVars, files, IMAGE_DETAIL_FILE, IMAGE_URI>>

\* lines 1103-1104: docker ps | grep graphql-backend once more, not under an
\* if: when the container is gone by now grep fails and set -e ends the script
Show ==
    /\ pc = "show"
    /\ \/ /\ log' = Append(log, Ran("ps", <<>>, TRUE))
          /\ Exit(0)
       \/ /\ log' = Append(log, Ran("ps", <<>>, FALSE))
          /\ Exit(1)
    /\ UNCHANGED <<jsVars, files, IMAGE_DETAIL_FILE, IMAGE_URI>>

Next ==
    \/ Locate
    \/ Cat
    \/ Extract
    \/ Login
    \/ StopOrRemove
    \/ Pull
    \/ Run
    \/ Verify
    \/ Show
    \/ GetEnvPath
    \/ Spread
    \/ ForEach
    \/ NormalizePrivate
    \/ NormalizePublic
    \/ NormalizeRefresh
    \/ Return
    \/ Reapply

Spec == Init /\ [][Next]_vars

---------------------------------------------------------------------------
(* Type and consistency of the model *)

Returned == pc \in { "done", "reapplied" }
\* the mapping processEnvVars returned
out == objs[ret]

TypeOK ==
    /\ pc \in { "getEnvPath", "returned", "processEnvVars", "forEach", "line35", "line39",
                "line43", "line49", "done", "reapplied", "threw",
                "locate", "cat", "extract", "login", "stop graphql-backend",
                "rm graphql-backend", "stop demo-backend", "rm demo-backend", "pull", "run",
                "verify", "show", "exited" }
    /\ status \in -1..255
    /\ i \in 0..(Len(multilineVars) + 1)
    /\ config \in 0..Len(objs)
    /\ processed \in 0..Len(objs)
    /\ ret \in 0..Len(objs)

\* the steps of the run compute what the function computes
StepsAgree == Returned => out = processEnvVars(input)

---------------------------------------------------------------------------
(* What the claims say, stated without the operators of the code *)

\* the positions of s where a backslash is followed by n
Occ(s) == { j \in 1..(Len(s) - 1) : s[j] = BSL /\ s[j + 1] = "n" }
\* the positions of s that are not the n of such a pair
Kept(s) == { j \in 1..Len(s) : (j - 1) \notin Occ(s) }
\* s with each backslash-n pair replaced by one newline, the rest kept in order
Converted(s) ==
    [ k \in 1..Cardinality(Kept(s)) |->
        LET j == CHOOSE x \in Kept(s) : Cardinality({ y \in Kept(s) : y <= x }) = k
        IN  IF j \in Occ(s) THEN NL ELSE s[j] ]
\* a value after newline conversion: only strings are converted
Conv(v) == IF v.type = "string" THEN Str(Converted(v.val)) ELSE v

InVars ==
    pc \in { "processEnvVars", "forEach", "line35", "line39", "line43", "line49", "done",
             "reapplied", "threw" }
ModeSignals == { Undefined, Str(<<"production">>), Str(<<"test">>) }
ModeOrDevelopment == IF NODE_ENV.type = "undefined" THEN <<"development">> ELSE NODE_ENV.val
PathExpected == resolve(cwd, dest \o <<"/", ".">> \o ModeOrDevelopment \o <<".", "env">>)
SameInEveryCwd == \A c \in Cwds : getEnvPath(c, dest, NODE_ENV) = path

---------------------------------------------------------------------------
(* C1 *)

\* C1 as stated: for NODE_ENV absent, "production" or "test", getEnvPath
\* returns resolve(d + "/." + (m or "development") + ".env"), and the result
\* depends on nothing but d and NODE_ENV (the working directory does not
\* change it).
C1_Original ==
    pc = "returned" /\ NODE_ENV \in ModeSignals => path = PathExpected /\ SameInEveryCwd

\* C1 amended: the result is resolve(d + "/." + (m or "development") + ".env");
\* it depends on d and NODE_ENV only when d is empty or starts with "/",
\* otherwise path.resolve also reads the working directory.
C1_EnvPath ==
    pc = "returned" /\ NODE_ENV \in ModeSignals =>
        /\ path = PathExpected
        /\ (dest = <<>> \/ IsAbsolute(dest)) => SameInEveryCwd

C1_Witness ==
    /\ pc = "returned"
    /\ NODE_ENV = Str(<<"production">>)
    /\ dest = <<"/", "app">>
    /\ cwd = <<"/", "srv">>
    /\ path = <<"/", "app", "/", ".", "production", ".", "env">>

---------------------------------------------------------------------------
(* C2 *)

\* C2: processEnvVars never mutates its argument: at every point of the call
\* and after it the argument object holds the keys and values it held before
\* the call, and the object returned is another object than the argument.
C2_InputNotMutated ==
    InVars =>
        /\ objs[config] = input
        /\ Returned => ret \in 1..Len(objs) /\ ret # config

C2_Witness == Returned /\ out # input /\ objs[config] = input /\ Cardinality(DOMAIN input) = 3

---------------------------------------------------------------------------
(* C3 *)

\* C3: for each of the six targeted keys whose input value is a string, the
\* value carried to the output (under the canonical key for a lowercase key
\* that is merged, under the same key otherwise; a canonical value that a
\* lowercase value overwrites is not carried) is the input string with every
\* backslash-n pair replaced by one newline and the rest kept in order.
C3_NewlinesConverted ==
    Returned =>
        \A k \in Targeted \cap DOMAIN input :
            input[k].type = "string" =>
                IF k \in Lowercase
                THEN IF Truthy(input[k])
                     THEN Has(out, Canon(k)) /\ out[Canon(k)] = Conv(input[k])
                     ELSE Has(out, k) /\ out[k] = Conv(input[k])
                ELSE ~Truthy(Get(input, Lower(k))) => Has(out, k) /\ out[k] = Conv(input[k])

C3_Witness ==
    /\ Returned
    /\ Has(input, "JWT_REFRESH_TOKEN_PRIVATE_KEY")
    /\ input["JWT_REFRESH_TOKEN_PRIVATE_KEY"] = Str(<<BSL, "n", BSL, BSL, "n">>)
    /\ Has(input, "jwt_public_key")
    /\ input["jwt_public_key"] = Str(<<"a", BSL, "n", "b">>)
    /\ Get(out, "JWT_REFRESH_TOKEN_PRIVATE_KEY") = Str(<<NL, BSL, NL>>)
    /\ Get(out, "JWT_PUBLIC_KEY") = Str(<<"a", NL, "b">>)

---------------------------------------------------------------------------
(* C4 *)

\* C4 as stated: whenever the input holds JWT_PRIVATE_KEY with the value
\* a, backslash, n, b, whatever its other entries, the output holds
\* JWT_PRIVATE_KEY with the value a, newline, b.
C4_Original ==
    Returned /\ Get(input, "JWT_PRIVATE_KEY") = Str(<<"a", BSL, "n", "b">>) =>
        Has(out, "JWT_PRIVATE_KEY") /\ out["JWT_PRIVATE_KEY"] = Str(<<"a", NL, "b">>)

\* C4 amended: the same, for the inputs whose jwt_private_key is absent or
\* falsy (a truthy jwt_private_key overwrites JWT_PRIVATE_KEY).
C4_PrivateKeyNewline ==
    /\ Returned
    /\ Get(input, "JWT_PRIVATE_KEY") = Str(<<"a", BSL, "n", "b">>)
    /\ ~Truthy(Get(input, "jwt_private_key"))
    => Has(out, "JWT_PRIVATE_KEY") /\ out["JWT_PRIVATE_KEY"] = Str(<<"a", NL, "b">>)

C4_Witness ==
    /\ Returned
    /\ Get(input, "JWT_PRIVATE_KEY") = Str(<<"a", BSL, "n", "b">>)
    /\ Get(input, "jwt_private_key") = Str(<<>>)
    /\ Get(input, "jwt_public_key") = Num("1")
    /\ Get(out, "JWT_PRIVATE_KEY") = Str(<<"a", NL, "b">>)

---------------------------------------------------------------------------
(* C5 *)

\* C5 as stated: a lowercase variant key present in the input, whatever its
\* value, is not a key of the output.
C5_Original == Returned => \A k \in Lowercase \cap DOMAIN input : ~Has(out, k)

\* C5 amended: a lowercase variant key present in the input with a truthy
\* value is not a key of the output.
C5_LowercaseRemoved ==
    Returned => \A k \in Lowercase \cap DOMAIN input : Truthy(input[k]) => ~Has(out, k)

C5_Witness ==
    /\ Returned
    /\ Get(input, "jwt_refresh_token_private_key") = Obj
    /\ ~Has(out, "jwt_refresh_token_private_key")
    /\ Get(out, "JWT_REFRESH_TOKEN_PRIVATE_KEY") = Obj

---------------------------------------------------------------------------
(* C6 *)

\* the conversion of line 28 is done before the copy of line 35
ConvertedBeforeCopy ==
    pc = "line35" =>
        \A k \in Lowercase \cap DOMAIN input : Get(objs[processed], k) = Conv(input[k])

\* C6 as stated: whenever a lowercase variant key is present in the input,
\* the canonical key of the output holds the lowercase key's value after
\* newline conversion, the canonical key being in the input or not.
C6_Original ==
    /\ ConvertedBeforeCopy
    /\ Returned =>
        \A k \in Lowercase \cap DOMAIN input :
            Has(out, Canon(k)) /\ out[Canon(k)] = Conv(input[k])

\* C6 amended: whenever a lowercase variant key is present in the input with
\* a truthy value, the canonical key of the output holds that value after
\* newline conversion (done before the copy), the canonical key being in the
\* input or not; when both are present the canonical input value is dropped.
C6_LowercaseWins ==
    /\ ConvertedBeforeCopy
    /\ Returned =>
        \A k \in Lowercase \cap DOMAIN input :
            Truthy(input[k]) => Has(out, Canon(k)) /\ out[Canon(k)] = Conv(input[k])

C6_Witness ==
    /\ Returned
    /\ Get(input, "jwt_public_key") = Str(<<"a", BSL, "n", "b">>)
    /\ Get(input, "JWT_PUBLIC_KEY") = Str(<<"n", BSL, NL>>)
    /\ Get(out, "JWT_PUBLIC_KEY") = Str(<<"a", NL, "b">>)
    /\ ~Has(out, "jwt_public_key")

---------------------------------------------------------------------------
(* C7 *)

\* C7: a key outside the six targeted names is in the output exactly when it
\* is in the input, with the identical value.
C7_OthersPassThrough ==
    Returned =>
        \A k \in Keys \ Targeted :
            /\ Has(out, k) <=> Has(input, k)
            /\ Has(input, k) => out[k] = input[k]

C7_Witness ==
    /\ Returned
    /\ Get(input, "PORT") = Str(<<"a", BSL, "n", "b">>)
    /\ Get(out, "PORT") = Str(<<"a", BSL, "n", "b">>)
    /\ out # input

---------------------------------------------------------------------------
(* C8 *)

\* C8: for a mapping with none of the six JWT keys the output has exactly
\* the keys and values of the input.
C8_NoJwtKeysNoChange == Returned /\ (DOMAIN input) \cap Targeted = {} => out = input

C8_Witness ==
    /\ Returned
    /\ DOMAIN input = OtherKeys
    /\ DOMAIN out = OtherKeys
    /\ out = input

---------------------------------------------------------------------------
(* C9 *)

\* C9: a non-string value under a targeted key is never replaced by the
\* forEach, and the output holds the identical value: under the same key for
\* a canonical key whose lowercase counterpart is absent and for a falsy
\* lowercase value, under the canonical key for a truthy lowercase value.
C9_NonStringUntouched ==
    InVars =>
        \A k \in Targeted \cap DOMAIN input :
            input[k].type # "string" =>
                /\ pc \in { "forEach", "line35" } => Get(objs[processed], k) = input[k]
                /\ Returned =>
                    IF k \in Lowercase
                    THEN IF Truthy(input[k])
                         THEN Has(out, Canon(k)) /\ out[Canon(k)] = input[k]
                         ELSE Has(out, k) /\ out[k] = input[k]
                    ELSE ~Has(input, Lower(k)) => Has(out, k) /\ out[k] = input[k]

C9_Witness ==
    /\ Returned
    /\ Get(input, "JWT_PUBLIC_KEY") = Num("1")
    /\ ~Has(input, "jwt_public_key")
    /\ Get(input, "jwt_private_key") = Bool("true")
    /\ Get(out, "JWT_PUBLIC_KEY") = Num("1")
    /\ Get(out, "JWT_PRIVATE_KEY") = Bool("true")

---------------------------------------------------------------------------
(* C10 *)

\* C10: processEnvVars of the mapping processEnvVars returned has the same
\* keys and values as that mapping; the mapping returned holds no
\* backslash-n pair under a targeted key and no lowercase key whose value
\* would be merged.
C10_Idempotent ==
    /\ pc = "reapplied" => again = out
    /\ Returned =>
        \A k \in Targeted \cap DOMAIN out :
            /\ out[k].type = "string" => Occ(out[k].val) = {}
            /\ k \in Lowercase => ~Truthy(out[k])

C10_Witness ==
    /\ pc = "reapplied"
    /\ again = out
    /\ Get(input, "jwt_private_key") = Str(<<BSL, "n", BSL, BSL, "n">>)
    /\ Get(input, "JWT_PRIVATE_KEY") = Str(<<"a", BSL, "n", "b">>)
    /\ Get(out, "JWT_PRIVATE_KEY") = Str(<<NL, BSL, NL>>)

---------------------------------------------------------------------------
(* C11 *)

\* C11: neither function raises an error: no run reaches a thrown error (a
\* missing targeted key, a non-string or empty value under a targeted key and
\* an absent NODE_ENV included); the forEach goes on to its next element and
\* each function ends in a returned result, an absolute path or a mapping.
C11_NoError ==
    /\ pc # "threw"
    /\ pc = "forEach" => i \in 1..Len(multilineVars) /\ processed \in 1..Len(objs)
    /\ pc = "returned" => IsAbsolute(path)
    /\ Returned => ret = processed /\ DOMAIN out \subseteq Keys

C11_Witness ==
    /\ pc = "reapplied"
    /\ Get(input, "JWT_PRIVATE_KEY") = Num("1")
    /\ Get(input, "jwt_public_key") = Str(<<>>)
    /\ Get(input, "jwt_refresh_token_private_key") = Obj
    /\ ~Has(input, "JWT_PUBLIC_KEY")
    /\ Get(out, "JWT_PRIVATE_KEY") = Num("1")

---------------------------------------------------------------------------
(* C12 *)

\* the file name C12 states: .development.env for an absent or empty
\* NODE_ENV, "." + e + ".env" for any other value e
FileNameStated ==
    IF NODE_ENV = Undefined \/ NODE_ENV = Str(<<>>)
    THEN <<".", "development", ".", "env">>
    ELSE <<".">> \o NODE_ENV.val \o <<".", "env">>

\* C12: getEnvPath treats an empty NODE_ENV like an absent one: the file name
\* is .development.env, never "..env"; for every other NODE_ENV value e,
\* known mode or not, the file name is "." + e + ".env".
C12_EmptyEnvIsDevelopment ==
    pc = "returned" =>
        /\ path = resolve(cwd, dest \o <<"/">> \o FileNameStated)
        /\ NODE_ENV = Str(<<>>) => path = getEnvPath(cwd, dest, Undefined)
        /\ NODE_ENV = Str(<<>>) => path # resolve(cwd, dest \o <<"/", ".", ".", "env">>)

C12_Witness ==
    /\ pc = "returned"
    /\ NODE_ENV = Str(<<>>)
    /\ dest = <<"app">>
    /\ cwd = <<"/", "srv">>
    /\ path = <<"/", "srv", "/", "app", "/", ".", "development", ".", "env">>

---------------------------------------------------------------------------
(* C13 *)

\* C13: the case merge goes by the truthiness of the lowercase value: a
\* lowercase variant key present with a falsy value stays in the output with
\* that value, and the canonical key is neither created nor overwritten (it
\* is in the output exactly when it is in the input, with its own value
\* after newline conversion).
C13_FalsyLowercaseStays ==
    Returned =>
        \A k \in Lowercase \cap DOMAIN input :
            ~Truthy(input[k]) =>
                /\ Has(out, k) /\ out[k] = input[k]
                /\ Has(out, Canon(k)) <=> Has(input, Canon(k))
                /\ Has(input, Canon(k)) => out[Canon(k)] = Conv(input[Canon(k)])

C13_Witness ==
    /\ Returned
    /\ Get(input, "jwt_private_key") = Num("0")
    /\ Get(input, "JWT_PRIVATE_KEY") = Str(<<"a", BSL, "n", "b">>)
    /\ Get(input, "jwt_public_key") = Str(<<>>)
    /\ Get(out, "jwt_private_key") = Num("0")
    /\ Get(out, "JWT_PRIVATE_KEY") = Str(<<"a", NL, "b">>)
    /\ Get(out, "jwt_public_key") = Str(<<>>)
    /\ ~Has(out, "JWT_PUBLIC_KEY")

---------------------------------------------------------------------------
(* C14 *)

\* the commands of the log, in the order they were run
Cmds == [ j \in 1..Len(log) |-> log[j].cmd ]
\* the commands of a run that exits 0
SuccessCmds ==
    << "login", "stop graphql-backend", "rm graphql-backend", "stop demo-backend",
       "rm demo-backend", "pull", "run graphql-backend", "ps", "ps" >>
Failed(c) == \E j \in 1..Len(log) : log[j].cmd = c /\ ~log[j].ok
\* the four stop and rm commands were run, in the order of the script
OldContainersStopped ==
    \E j \in 1..Len(log) : Len(log) >= j + 3 /\ SubSeq(Cmds, j, j + 3) = StopCommands
NoContainerTouched == \A j \in 1..Len(log) : log[j].cmd = "login"
\* the file the claim says is read: the current directory's before /opt/app's
PreferredFile == IF files.here # NoFile THEN files.here ELSE files.opt
PreferredName == IF files.here # NoFile THEN "./imageDetail.json" ELSE "/opt/app/imageDetail.json"
NoImageDetail == files.here = NoFile /\ files.opt = NoFile
EmptyImageURI == PreferredFile \in { NoField, Json(<<>>) }

\* what C14 says of a run that exits 0: the file was found, the current
\* directory first, its ImageURI is not empty, and the commands were run in
\* the order stop and rm of the old containers, pull, run, ps
ExitZeroOrder ==
    status = 0 =>
        /\ ~NoImageDetail
        /\ IMAGE_DETAIL_FILE = PreferredName
        /\ IMAGE_URI # <<>> /\ IMAGE_URI = PreferredFile.uri
        /\ Cmds = SuccessCmds
        /\ \A j \in 1..Len(log) : log[j].ok \/ log[j].cmd \in { "stop graphql-backend",
               "rm graphql-backend", "stop demo-backend", "rm demo-backend" }
        /\ \A j \in 1..Len(log) : log[j].cmd = "pull" => log[j].arg = IMAGE_URI

\* a missing file or an empty ImageURI exits 1 before any aws or docker command
EarlyExit == NoImageDetail \/ EmptyImageURI => status = 1 /\ log = <<>>

\* C14 as stated: a run that exits 0 did the steps in the order above; a
\* missing file or an empty ImageURI exits 1 before any docker command; a
\* failed login, pull or run ends the script with a non-zero status after
\* the old containers are already stopped.
C14_Original ==
    pc = "exited" =>
        /\ ExitZeroOrder
        /\ EarlyExit
        /\ Failed("login") \/ Failed("pull") \/ Failed("run graphql-backend") =>
               status # 0 /\ OldContainersStopped

\* C14 amended: the same, but only a failed pull or run ends the script
\* after the old containers are stopped; a failed login ends it with a
\* non-zero status before any container is stopped, removed, pulled or run.
C14_DeployOrder ==
    pc = "exited" =>
        /\ ExitZeroOrder
        /\ EarlyExit
        /\ Failed("pull") \/ Failed("run graphql-backend") => status # 0 /\ OldContainersStopped
        /\ Failed("login") => status # 0 /\ NoContainerTouched

C14_Witness ==
    /\ pc = "exited"
    /\ status = 0
    /\ files.here = Json(<<"image-a">>)
    /\ files.opt = Json(<<"image-b">>)
    /\ IMAGE_URI = <<"image-a">>
    /\ Cmds = SuccessCmds
    /\ Failed("stop demo-backend")

=============================================================================
